---- MODULE Spec2Model ----
(***************************************************************************)
(* Model of src/src/randomizations.py: the Randomizations allocation       *)
(* engine (simple, block, stratified, covariate-adaptive, permuted-block,  *)
(* cluster, minimization, randomization_check) together with the           *)
(* process-wide random generator that every engine shares.                 *)
(*                                                                         *)
(* Participants are the identifiers 1..N, groups the labels 1..G in their  *)
(* declared order.  lists holds the list objects of the caller and         *)
(* participants[e] is the object engine e refers to.  An allocation is a   *)
(* function from group labels to sequences of participants (a Python dict  *)
(* of lists).                                                              *)
(***************************************************************************)
EXTENDS Integers, Sequences, FiniteSets, TLC

VARIABLES lists, participants, groups, rng, gen, ret, calls

vars == <<lists, participants, groups, rng, gen, ret, calls>>

(* ------------------------------ bounds --------------------------------- *)

MaxN == 3
MaxGroups == 3
MaxBlockSize == 2
MaxSizes == 2
MaxStrata == 2
MaxClusters == 4
MaxClusterSize == 2
MaxDraws == 3
MaxReseeds == 1
MaxEngines == 2

CovValues == {"A", "B"}

(* ------------------------------ helpers -------------------------------- *)

Range(s) == {s[i] : i \in DOMAIN s}

Min2(a, b) == IF a <= b THEN a ELSE b

RECURSIVE Fact(_)
Fact(n) == IF n <= 1 THEN 1 ELSE n * Fact(n - 1)

RECURSIVE Flatten(_)
\* list.extend applied block after block
Flatten(ss) == IF ss = <<>> THEN <<>> ELSE Head(ss) \o Flatten(Tail(ss))

RECURSIVE SumSeq(_)
SumSeq(s) == IF s = <<>> THEN 0 ELSE Head(s) + SumSeq(Tail(s))

\* number of occurrences of x in the sequence s
Count(s, x) == Cardinality({i \in DOMAIN s : s[i] = x})

SliceNoStep(s, start, step) ==
  [k \in 1..(IF Len(s) > start THEN Len(s) - start ELSE 0) |-> s[start + k]]

\* Python's s[start::step] (start 0-based, step >= 1)
Slice(s, start, step) ==
  LET n == IF Len(s) > start THEN (Len(s) - start + step - 1) \div step ELSE 0
  IN  [k \in 1..n |-> s[start + (k - 1) * step + 1]]

DealMissingLast(seq, grps) ==
  [g \in Range(grps) |->
     Slice(SubSeq(seq, 1, Len(seq) - 1),
           (CHOOSE i \in DOMAIN grps : grps[i] = g) - 1, Len(grps))]

\* {group: seq[i::len(groups)] for i, group in enumerate(groups)}
Deal(seq, grps) ==
  [g \in Range(grps) |->
     Slice(seq, (CHOOSE i \in DOMAIN grps : grps[i] = g) - 1, Len(grps))]


RECURSIVE SortedSeq(_)
\* the members of a finite set of integers in ascending order
SortedSeq(S) ==
  IF S = {} THEN <<>>
  ELSE LET m == CHOOSE x \in S : \A y \in S : x <= y
       IN  <<m>> \o SortedSeq(S \ {m})

BlocksDropShort(parts, block_size) ==
  IF block_size < 0 THEN <<>>
  ELSE [k \in 1..(Len(parts) \div block_size) |->
          SubSeq(parts, (k - 1) * block_size + 1, k * block_size)]

\* [parts[i:i + block_size] for i in range(0, len(parts), block_size)]
\* (block_size /= 0; a negative step gives an empty range)
Blocks(parts, block_size) ==
  IF block_size < 0 THEN <<>>
  ELSE [k \in 1..((Len(parts) + block_size - 1) \div block_size) |->
          SubSeq(parts, (k - 1) * block_size + 1,
                 Min2(k * block_size, Len(parts)))]

RECURSIVE AllBlocks(_, _)
\* for block_size in block_sizes: blocks.extend([...])
AllBlocks(parts, block_sizes) ==
  IF block_sizes = <<>> THEN <<>>
  ELSE Blocks(parts, Head(block_sizes)) \o AllBlocks(parts, Tail(block_sizes))

StratifiedAllocWhole(shuffled, grps) ==
  [g \in Range(grps) |->
     Flatten([k \in DOMAIN shuffled |->
                IF grps[((k - 1) % Len(grps)) + 1] = g
                THEN shuffled[k] ELSE <<>>])]

\* stratified_groups after the loop over the (already shuffled) strata
StratifiedAlloc(shuffled, grps) ==
  [g \in Range(grps) |->
     Flatten([k \in DOMAIN shuffled |-> Deal(shuffled[k], grps)[g]])]

\* imbalance_scores[group]: members of the group with the same covariate value
Score(members, covariates, value) ==
  Cardinality({i \in DOMAIN members : covariates[members[i]] = value})

ArgMax(grps, score) ==
  CHOOSE i \in DOMAIN grps :
    /\ \A j \in DOMAIN grps : score[grps[i]] >= score[grps[j]]
    /\ \A j \in 1..(i - 1) : score[grps[j]] < score[grps[i]]

\* min(imbalance_scores, key=imbalance_scores.get): the first group, in
\* declared order, with the least score (as a position of grps)
ArgMin(grps, score) ==
  CHOOSE i \in DOMAIN grps :
    /\ \A j \in DOMAIN grps : score[grps[i]] <= score[grps[j]]
    /\ \A j \in 1..(i - 1) : score[grps[j]] > score[grps[i]]

RECURSIVE MinimizePrefix(_, _, _, _)
\* group_allocations after the first k participants of the loop
MinimizePrefix(parts, covariates, grps, k) ==
  IF k = 0 THEN [g \in Range(grps) |-> <<>>]
  ELSE LET prev  == MinimizePrefix(parts, covariates, grps, k - 1)
           score == [g \in Range(grps) |->
                       Score(prev[g], covariates, covariates[parts[k]])]
           best  == grps[ArgMin(grps, score)]
       IN  [prev EXCEPT ![best] = Append(@, parts[k])]

Reverse(s) == [i \in DOMAIN s |-> s[Len(s) + 1 - i]]

ExpandClustersReversed(cluster_allocation, clusters) ==
  [g \in {h \in DOMAIN cluster_allocation : cluster_allocation[h] /= <<>>} |->
     Flatten([k \in DOMAIN cluster_allocation[g] |->
                Reverse(clusters[cluster_allocation[g][k]])])]

\* participant_allocation: a defaultdict filled from cluster_allocation
ExpandClusters(cluster_allocation, clusters) ==
  [g \in {h \in DOMAIN cluster_allocation : cluster_allocation[h] /= <<>>} |->
     Flatten([k \in DOMAIN cluster_allocation[g] |->
                clusters[cluster_allocation[g][k]]])]

(* ------------------------------ inputs --------------------------------- *)

BlockSizeInputs == (0 - MaxBlockSize)..MaxBlockSize

BlockSizesInputs ==
  UNION {[1..k -> 0..MaxBlockSize] : k \in 0..MaxSizes}

\* covariate maps, total or with entries missing
CovariateInputs(ids) == UNION {[S -> CovValues] : S \in SUBSET ids}

\* clusters of consecutive identifiers: k clusters of shape members each
\* (shape >= 1), or (shape 0) clusters of sizes 0, 1, 2, ... in turn
ClusterSize(shape, c) ==
  IF shape >= 1 THEN shape ELSE (c - 1) % (MaxClusterSize + 1)

ClusterStart(shape, c) ==
  SumSeq([d \in 1..(c - 1) |-> ClusterSize(shape, d)])

ClusterInputs ==
  {[c \in 1..k |-> [i \in 1..ClusterSize(shape, c) |->
                      ClusterStart(shape, c) + i]] :
      k \in 1..MaxClusters, shape \in 0..MaxClusterSize}

(* ------------------------- the random generator ------------------------ *)

\* The generator is process-wide: one state for every engine.  random.seed(s)
\* puts it at the start of the stream of 32-bit words that s determines.  The
\* stream of a seed is a fixed sequence that is not known beforehand:
\* gen[s] holds, for every word of it read so far, the leading bits that were
\* read ([bits |-> how many, val |-> their value]); bits read for the first
\* time can have any value.  rng.pos counts the words consumed since the
\* generator was seeded.  A generator that was never seeded started from OS
\* entropy: every outcome of a shuffle is possible.
Seeds == {42, 43}

Unseeded == [seeded |-> FALSE, seed |-> 0, pos |-> 0]

SeededWith(s) == [seeded |-> TRUE, seed |-> s, pos |-> 0]

RECURSIVE BitLength(_)
\* int.bit_length
BitLength(n) == IF n = 0 THEN 0 ELSE 1 + BitLength(n \div 2)

RECURSIVE Pow2(_)
Pow2(k) == IF k = 0 THEN 1 ELSE 2 * Pow2(k - 1)

Swap(x, i, j) == [x EXCEPT ![i] = x[j], ![j] = x[i]]

RECURSIVE FisherYates(_, _, _)
\* random.shuffle: for i in reversed(range(1, len(x))): j = randbelow(i + 1);
\* x[i], x[j] = x[j], x[i].  r holds the successive randbelow results in
\* mixed radix (i and j are 0-based).
FisherYates(x, i, r) ==
  IF i < 1 THEN x
  ELSE FisherYates(Swap(x, i + 1, (r % (i + 1)) + 1), i - 1, r \div (i + 1))

Shuffle(x, r) == FisherYates(x, Len(x) - 1, r)

\* getrandbits(k) on the seeded generator st = [rng, gen]: the k leading bits
\* of the next word of the stream.  The set of [val, st] pairs.
GetRandBits(k, st) ==
  IF st.rng.pos >= MaxDraws THEN {}
  ELSE LET s    == st.rng.seed
           i    == st.rng.pos + 1
           have == IF i <= Len(st.gen[s]) THEN st.gen[s][i]
                   ELSE [bits |-> 0, val |-> 0]
           word == IF have.bits >= k THEN {have}
                   ELSE {[bits |-> k, val |-> have.val * Pow2(k - have.bits) + x] :
                           x \in 0..(Pow2(k - have.bits) - 1)}
       IN  {[val |-> w.val \div Pow2(w.bits - k),
             st  |-> [rng |-> [st.rng EXCEPT !.pos = i],
                      gen |-> [st.gen EXCEPT ![s] =
                                 IF i <= Len(@) THEN [@ EXCEPT ![i] = w]
                                 ELSE Append(@, w)]]] :
             w \in word}

RECURSIVE RandBelow(_, _)
\* Random._randbelow_with_getrandbits(n): k = n.bit_length();
\* r = getrandbits(k); while r >= n: r = getrandbits(k).  The set of
\* [val, st] pairs.
RandBelow(n, st) ==
  UNION {IF d.val < n THEN {d} ELSE RandBelow(n, d.st) :
           d \in GetRandBits(BitLength(n), st)}

RECURSIVE FisherYatesSeeded(_, _, _)
\* random.shuffle drawing from the seeded generator: the set of [out, st]
FisherYatesSeeded(x, i, st) ==
  IF i < 1 THEN {[out |-> x, st |-> st]}
  ELSE UNION {FisherYatesSeeded(Swap(x, i + 1, d.val + 1), i - 1, d.st) :
                d \in RandBelow(i + 1, st)}

\* The outcomes of random.shuffle(x) with the generator in state st =
\* [rng, gen]: the set of [out, st] pairs.  A list of length <= 1 consumes no
\* draw.
ShuffleOutcomes(x, st) ==
  IF Len(x) <= 1 THEN {[out |-> x, st |-> st]}
  ELSE IF st.rng.seeded
       THEN FisherYatesSeeded(x, Len(x) - 1, st)
       ELSE {[out |-> Shuffle(x, r), st |-> st] : r \in 0..(Fact(Len(x)) - 1)}

RECURSIVE ShuffleEach(_, _)
\* for block in blocks: random.shuffle(block) -- the set of
\* [out (the list of shuffled blocks), st] pairs
ShuffleEach(blocks, st) ==
  IF blocks = <<>> THEN {[out |-> <<>>, st |-> st]}
  ELSE UNION {
         {[out |-> <<h.out>> \o t.out, st |-> t.st] :
             t \in ShuffleEach(Tail(blocks), h.st)} :
         h \in ShuffleOutcomes(Head(blocks), st)}

\* the generator as the variables hold it
Generator == [rng |-> rng, gen |-> gen]

(* ------------------------------ results -------------------------------- *)

\* What a call returned: the operation, how it ended, the returned mapping,
\* the call's argument and the local the mapping was dealt from (the shuffled
\* list, randomized_blocks, cluster_allocation; the sizes for the check; for
\* stratified_randomization the caller's strata as the call leaves them).
Result(op, status, alloc, arg, aux) ==
  [op |-> op, status |-> status, alloc |-> alloc, arg |-> arg, aux |-> aux]

NoCall == Result("none", "none", <<>>, <<>>, <<>>)

Ident(n) == [i \in 1..n |-> i]

\* self.participants of engine e: the list object the engine refers to
Stored(e) == lists[participants[e]]

\* strata: every participant is put in one of the strata or in none; a
\* stratum is a list of the caller's ([stored |-> FALSE, members |-> ...]) or
\* the engine's stored list object itself ([stored |-> TRUE, ...]); at most
\* one stratum (a, 0 for none) is.
StrataInputs(e) ==
  LET ids == Range(Stored(e))
  IN  {[k \in 1..MaxStrata |->
          IF k = a THEN [stored |-> TRUE, members |-> Stored(e)]
          ELSE [stored |-> FALSE,
                members |-> SortedSeq({i \in ids : f[i] = k})]] :
        f \in [ids -> 0..MaxStrata], a \in 0..MaxStrata}

(* ------------------------------ actions -------------------------------- *)

\* the seed arguments: None (<<>>) or an integer s (<<s>>)
SeedInputs == {<<>>} \cup {<<s>> : s \in Seeds}

\* random.seed(seed): None seeds the generator from OS entropy
Seed(seed) == IF seed = <<>> THEN Unseeded ELSE SeededWith(seed[1])

\* set_random_seed
SetRandomSeed(e, seed) ==
  /\ e \in DOMAIN participants
  /\ rng' = Seed(seed)
  /\ UNCHANGED <<lists, participants, groups, gen, ret>>

\* Randomizations.__init__: the engine keeps a reference to the caller's list
\* obj (a new list with the value parts, or a list that exists already) and
\* seeds the generator when a seed is given (seed = <<s>>, <<>> for None)
Construct(e, obj, parts, grps, seed) ==
  /\ e \notin DOMAIN participants
  /\ obj \in 1..(Len(lists) + 1)
  /\ lists' = IF obj \in DOMAIN lists THEN lists ELSE Append(lists, parts)
  /\ participants' = [x \in DOMAIN participants \cup {e} |->
                        IF x = e THEN obj ELSE participants[x]]
  /\ groups' = [x \in DOMAIN groups \cup {e} |->
                        IF x = e THEN grps ELSE groups[x]]
  /\ ret' = [x \in DOMAIN ret \cup {e} |-> IF x = e THEN NoCall ELSE ret[x]]
  /\ rng' = IF seed /= <<>> THEN Seed(seed) ELSE rng
  /\ UNCHANGED gen

\* simple_randomization
SimpleRandomization(e) ==
  \E o \in ShuffleOutcomes(Stored(e), Generator) :
    /\ lists' = [lists EXCEPT ![participants[e]] = o.out]
    /\ rng' = o.st.rng
    /\ gen' = o.st.gen
    /\ ret' = [ret EXCEPT ![e] =
                 Result("simple", "ok", Deal(o.out, groups[e]), <<>>, o.out)]
    /\ UNCHANGED <<participants, groups>>

BlockRandomizationInPlace(e, block_size) ==
  /\ UNCHANGED <<participants, groups>>
  /\ IF block_size = 0
     THEN /\ ret' = [ret EXCEPT ![e] =
                       Result("block", "ValueError", <<>>, block_size, <<>>)]
          /\ UNCHANGED <<rng, gen, lists>>
     ELSE \E o \in ShuffleEach(Blocks(Stored(e), block_size), Generator) :
            /\ rng' = o.st.rng
            /\ gen' = o.st.gen
            /\ lists' = [lists EXCEPT ![participants[e]] =
                           IF block_size >= 1 THEN Flatten(o.out) ELSE @]
            /\ ret' = [ret EXCEPT ![e] =
                         Result("block", "ok",
                                Deal(Flatten(o.out), groups[e]),
                                block_size, Flatten(o.out))]

\* block_randomization
BlockRandomization(e, block_size) ==
  /\ UNCHANGED <<lists, participants, groups>>
  /\ IF block_size = 0
     THEN \* range() arg 3 must not be zero
          /\ ret' = [ret EXCEPT ![e] =
                       Result("block", "ValueError", <<>>, block_size, <<>>)]
          /\ UNCHANGED <<rng, gen>>
     ELSE \E o \in ShuffleEach(Blocks(Stored(e), block_size), Generator) :
            /\ rng' = o.st.rng
            /\ gen' = o.st.gen
            /\ ret' = [ret EXCEPT ![e] =
                         Result("block", "ok",
                                Deal(Flatten(o.out), groups[e]),
                                block_size, Flatten(o.out))]

RECURSIVE StrataLoop(_, _, _)
\* for stratum, members in strata.items(): random.shuffle(members) and the
\* slices taken of it: the set of [shuffled (each stratum as it was dealt),
\* stored (the engine's list after the loop), st].  A stratum that is the
\* stored list object is shuffled in place.
StrataLoop(strata, stored, st) ==
  IF strata = <<>> THEN {[shuffled |-> <<>>, stored |-> stored, st |-> st]}
  ELSE LET h == Head(strata)
       IN  UNION {
             {[shuffled |-> <<o.out>> \o t.shuffled,
               stored |-> t.stored, st |-> t.st] :
                t \in StrataLoop(Tail(strata),
                                 IF h.stored THEN o.out ELSE stored, o.st)} :
             o \in ShuffleOutcomes(IF h.stored THEN stored ELSE h.members, st)}

\* stratified_randomization
StratifiedRandomization(e, strata) ==
  /\ UNCHANGED <<participants, groups>>
  /\ \E o \in StrataLoop(strata, Stored(e), Generator) :
       /\ rng' = o.st.rng
       /\ gen' = o.st.gen
       /\ lists' = [lists EXCEPT ![participants[e]] = o.stored]
       /\ ret' = [ret EXCEPT ![e] =
                    Result("stratified", "ok",
                           StratifiedAlloc(o.shuffled, groups[e]), strata,
                           [k \in DOMAIN strata |->
                              IF strata[k].stored THEN o.stored
                              ELSE o.shuffled[k]])]

\* the loop shared by covariate_adaptive_randomization and minimization
Greedy(e, op, covariates) ==
  /\ UNCHANGED <<lists, participants, groups, gen, rng>>
  /\ ret' = [ret EXCEPT ![e] =
       IF Range(Stored(e)) \subseteq DOMAIN covariates
       THEN Result(op, "ok",
                   MinimizePrefix(Stored(e), covariates, groups[e],
                                  Len(Stored(e))),
                   covariates, <<>>)
       ELSE Result(op, "KeyError", <<>>, covariates, <<>>)]

\* covariate_adaptive_randomization
CovariateAdaptiveRandomization(e, covariates) ==
  Greedy(e, "covariate_adaptive", covariates)

\* minimization
Minimization(e, covariates) == Greedy(e, "minimization", covariates)

\* permuted_block_randomization
PermutedBlockRandomization(e, block_sizes) ==
  /\ UNCHANGED <<lists, participants, groups>>
  /\ IF \E i \in DOMAIN block_sizes : block_sizes[i] = 0
     THEN /\ ret' = [ret EXCEPT ![e] =
                       Result("permuted_block", "ValueError", <<>>,
                              block_sizes, <<>>)]
          /\ UNCHANGED <<rng, gen>>
     ELSE \E o \in ShuffleEach(AllBlocks(Stored(e), block_sizes), Generator) :
            /\ rng' = o.st.rng
            /\ gen' = o.st.gen
            /\ ret' = [ret EXCEPT ![e] =
                         Result("permuted_block", "ok",
                                Deal(Flatten(o.out), groups[e]),
                                block_sizes, Flatten(o.out))]

\* cluster_randomization
ClusterRandomization(e, clusters) ==
  /\ UNCHANGED <<lists, participants, groups>>
  /\ \E o \in ShuffleOutcomes(Ident(Len(clusters)), Generator) :
       LET cluster_allocation == Deal(o.out, groups[e])
       IN  /\ rng' = o.st.rng
           /\ gen' = o.st.gen
           /\ ret' = [ret EXCEPT ![e] =
                        Result("cluster", "ok",
                               ExpandClusters(cluster_allocation, clusters),
                               clusters, cluster_allocation)]

\* randomization_check, applied to the allocation the engine returned last
RandomizationCheck(e) ==
  /\ ret[e].status = "ok"
  /\ ret[e].op /= "randomization_check"
  /\ ret' = [ret EXCEPT ![e] =
               Result("randomization_check", "ok", <<>>, <<>>,
                      [g \in DOMAIN ret[e].alloc |-> Len(ret[e].alloc[g])])]
  /\ UNCHANGED <<lists, participants, groups, gen, rng>>

\* the caller is done with the value returned last (the engine keeps no
\* allocation between calls)
DropResult(e) ==
  /\ ret[e] /= NoCall
  /\ ret' = [ret EXCEPT ![e] = NoCall]
  /\ UNCHANGED <<lists, participants, groups, gen, rng>>

\* no returned value is held by the caller of engine e
Idle(e) == ret[e] = NoCall

\* the calls of set_random_seed made so far
Reseeds == Cardinality({i \in DOMAIN calls : calls[i][1] = "seed"})

(* --------------------------- specifications ---------------------------- *)

\* One engine, built without a seed on a list of its own.  Any sequence of
\* calls on the engine, set_random_seed included.
Init ==
  /\ \E n \in 1..MaxN, g \in 2..MaxGroups :
       /\ lists = <<Ident(n)>>
       /\ groups = <<Ident(g)>>
  /\ participants = <<1>>
  /\ rng = Unseeded
  /\ gen = [s \in Seeds |-> <<>>]
  /\ ret = <<NoCall>>
  /\ calls = <<>>

\* The caller makes a call once it is done with the value the call before
\* returned; randomization_check is given the allocation returned last.
Next ==
  \/ /\ Idle(1)
     /\ SimpleRandomization(1)
     /\ UNCHANGED calls
  \/ /\ Idle(1)
     /\ \E b \in BlockSizeInputs : BlockRandomization(1, b)
     /\ UNCHANGED calls
  \/ /\ Idle(1)
     /\ \E s \in StrataInputs(1) : StratifiedRandomization(1, s)
     /\ UNCHANGED calls
  \/ /\ Idle(1)
     /\ \E c \in CovariateInputs(Range(Stored(1))) :
          CovariateAdaptiveRandomization(1, c)
     /\ UNCHANGED calls
  \/ /\ Idle(1)
     /\ \E b \in BlockSizesInputs : PermutedBlockRandomization(1, b)
     /\ UNCHANGED calls
  \/ /\ Idle(1)
     /\ \E c \in ClusterInputs : ClusterRandomization(1, c)
     /\ UNCHANGED calls
  \/ /\ Idle(1)
     /\ \E c \in CovariateInputs(Range(Stored(1))) : Minimization(1, c)
     /\ UNCHANGED calls
  \/ /\ Idle(1)
     /\ Reseeds < MaxReseeds
     /\ \E s \in SeedInputs :
          /\ SetRandomSeed(1, s)
          /\ calls' = Append(calls, <<"seed", 1, s>>)
  \/ RandomizationCheck(1) /\ UNCHANGED calls
  \/ DropResult(1) /\ UNCHANGED calls

Spec == Init /\ [][Next]_vars

\* The process from its start: engines are built one after the other, each
\* with or without a seed, on a new list or on a list an earlier engine
\* holds; the generator is seeded again through set_random_seed; and
\* simple_randomization is called once on each engine, in any interleaving.
InitSeed ==
  /\ lists = <<>>
  /\ participants = <<>>
  /\ groups = <<>>
  /\ ret = <<>>
  /\ rng = Unseeded
  /\ gen = [s \in Seeds |-> <<>>]
  /\ calls = <<>>

NextSeed ==
  \/ \E n \in 1..MaxN, g \in 2..MaxGroups,
        seed \in SeedInputs :
       LET e == Len(participants) + 1
       IN  /\ e <= MaxEngines
           /\ Construct(e, Len(lists) + 1, Ident(n), Ident(g), seed)
           /\ calls' = Append(calls,
                              <<"init", e, Len(lists) + 1, Ident(n), g, seed>>)
  \/ \E obj \in DOMAIN lists, g \in 2..MaxGroups,
        seed \in SeedInputs :
       LET e == Len(participants) + 1
       IN  /\ e <= MaxEngines
           /\ Construct(e, obj, lists[obj], Ident(g), seed)
           /\ calls' = Append(calls, <<"init", e, obj, lists[obj], g, seed>>)
  \/ \E e \in DOMAIN participants, s \in SeedInputs :
       /\ Reseeds < MaxReseeds
       /\ SetRandomSeed(e, s)
       /\ calls' = Append(calls, <<"seed", e, s>>)
  \/ \E e \in DOMAIN participants :
       /\ Idle(e)
       /\ SimpleRandomization(e)
       /\ calls' = Append(calls, <<"simple", e>>)

SpecSeed == InitSeed /\ [][NextSeed]_vars

(* ------------------------------- claims -------------------------------- *)

\* the single engine of Spec
P == Stored(1)
G == groups[1]
R == ret[1]

Abs(x) == IF x < 0 THEN 0 - x ELSE x

\* how often participant p occurs in the mapping alloc, over all its groups
Occurrences(alloc, p) ==
  Cardinality({gi \in {<<g, i>> : g \in DOMAIN alloc, i \in 1..MaxN * MaxSizes} :
                 gi[2] \in DOMAIN alloc[gi[1]] /\ alloc[gi[1]][gi[2]] = p})

Assigned(alloc) == UNION {Range(alloc[g]) : g \in DOMAIN alloc}

Sizes(alloc) == {Len(alloc[g]) : g \in DOMAIN alloc}

\* max(group sizes) - min(group sizes)
Spread(alloc) ==
  LET hi == CHOOSE x \in Sizes(alloc) : \A y \in Sizes(alloc) : y <= x
      lo == CHOOSE x \in Sizes(alloc) : \A y \in Sizes(alloc) : x <= y
  IN  hi - lo

Returned(op) == R.op = op /\ R.status = "ok"

AllSizesPositive(block_sizes) ==
  \A i \in DOMAIN block_sizes : block_sizes[i] >= 1

\* C1 (coverage): after simple_randomization(), block_randomization(b) with
\* b >= 1 and minimization(covariates) with an entry for every participant,
\* every participant of the engine occurs exactly once in the returned
\* allocation and nothing else occurs in it.
Coverage_C1 ==
  (\/ Returned("simple")
   \/ Returned("block") /\ R.arg >= 1
   \/ Returned("minimization"))
  => /\ Assigned(R.alloc) = Range(P)
     /\ \A p \in Range(P) : Occurrences(R.alloc, p) = 1

\* a block call on an engine whose stored order an earlier simple call changed
Witness_C1 ==
  /\ Returned("block") /\ R.arg = 2
  /\ Len(P) = MaxN /\ P /= Ident(MaxN)

\* C3 (no duplication, as claimed): in the allocation returned by any strategy
\* (permuted-block with any non-empty list of sizes >= 1) the participant sets
\* of two different groups are disjoint.
\* the strata passed to stratified_randomization share no participant
DisjointStrata(strata) ==
  \A j, k \in DOMAIN strata :
    j /= k => Range(strata[j].members) \cap Range(strata[k].members) = {}

Disjoint(alloc) ==
  \A g1, g2 \in DOMAIN alloc :
    g1 /= g2 => Range(alloc[g1]) \cap Range(alloc[g2]) = {}

NoDuplication_C3 ==
  (\/ Returned("simple") \/ Returned("block")
   \/ Returned("stratified") /\ DisjointStrata(R.arg)
   \/ Returned("minimization") \/ Returned("covariate_adaptive")
   \/ Returned("cluster")
   \/ Returned("permuted_block") /\ R.arg /= <<>> /\ AllSizesPositive(R.arg))
  => Disjoint(R.alloc)

\* C3 (amended): the same, with permuted-block restricted to a list of exactly
\* one block size >= 1.
NoDuplicationOneSize_C3 ==
  (\/ Returned("simple") \/ Returned("block")
   \/ Returned("stratified") /\ DisjointStrata(R.arg)
   \/ Returned("minimization") \/ Returned("covariate_adaptive")
   \/ Returned("cluster")
   \/ Returned("permuted_block") /\ Len(R.arg) = 1 /\ AllSizesPositive(R.arg))
  => Disjoint(R.alloc)

Witness_C3 ==
  /\ Returned("permuted_block") /\ R.arg = <<2>>
  /\ Len(P) = MaxN
  /\ \A g \in DOMAIN R.alloc : R.alloc[g] /= <<>>

\* C4 (round-robin dealing): simple, block (size >= 1) and permuted-block
\* (sizes >= 1) deal a sequence of length L = N (simple, block) or
\* N * len(block_sizes) (permuted-block); the group at position i gets exactly
\* the dealt elements i, i+G, i+2G, ..., so it has floor(L/G) members, plus
\* one exactly when it is among the first L mod G groups.
DealtLength ==
  IF R.op = "permuted_block" THEN Len(P) * Len(R.arg) ELSE Len(P)

RoundRobin_C4 ==
  (\/ Returned("simple")
   \/ Returned("block") /\ R.arg >= 1
   \/ Returned("permuted_block") /\ AllSizesPositive(R.arg))
  => /\ Len(R.aux) = DealtLength
     /\ DOMAIN R.alloc = Range(G)
     /\ \A i \in DOMAIN G :
          /\ Len(R.alloc[G[i]]) =
               (DealtLength \div Len(G))
                 + (IF i <= DealtLength % Len(G) THEN 1 ELSE 0)
          /\ \A k \in DOMAIN R.alloc[G[i]] :
               R.alloc[G[i]][k] = R.aux[i + (k - 1) * Len(G)]
     /\ Spread(R.alloc) <= 1

\* permuted-block with two sizes: the dealt list is twice as long and does not
\* divide evenly among the groups
Witness_C4 ==
  /\ Returned("permuted_block") /\ R.arg = <<1, 2>>
  /\ Len(P) = 2 /\ Len(G) = 3
  /\ Spread(R.alloc) = 1

\* C5 (stratified balance, as claimed): for strata that partition the
\* participants and at least two groups, max(group sizes) - min(group sizes)
\* is at most 1.
NonEmptyStrata(strata) == {k \in DOMAIN strata : strata[k].members /= <<>>}

IsPartition(strata) ==
  /\ NonEmptyStrata(strata) /= {}
  /\ DisjointStrata(strata)
  /\ UNION {Range(strata[k].members) : k \in DOMAIN strata} = Range(P)

StratifiedBalance_C5 ==
  (Returned("stratified") /\ IsPartition(R.arg) /\ Len(G) >= 2)
  => Spread(R.alloc) <= 1

\* C5 (amended): max(group sizes) - min(group sizes) is at most the number of
\* non-empty strata (so at most 1 for a single stratum).
StratifiedBalancePerStratum_C5 ==
  (Returned("stratified") /\ IsPartition(R.arg) /\ Len(G) >= 2)
  => Spread(R.alloc) <= Cardinality(NonEmptyStrata(R.arg))

Witness_C5 ==
  /\ Returned("stratified") /\ IsPartition(R.arg) /\ Len(G) = 2
  /\ Cardinality(NonEmptyStrata(R.arg)) = 2
  /\ Spread(R.alloc) = 2

\* C6: block_randomization(block_size) with block_size < 1 fails with
\* ConfigurationError and returns no mapping.
BlockSizeRejected_C6 ==
  (R.op = "block" /\ R.arg < 1) => R.status = "ConfigurationError"

\* C7 (minimization balance): minimization and covariate-adaptive take the
\* participants in stored order and put each in the group that so far holds
\* the fewest participants with its covariate value, the earliest such group
\* on ties; so after every step, for every covariate value, the counts of that
\* value in any two groups differ by at most 1.
\* members of group g among the first k stored participants with value v
Holding(g, k, v) ==
  Cardinality({j \in 1..k : P[j] \in Range(R.alloc[g]) /\ R.arg[P[j]] = v})

PositionIn(seq, x) == CHOOSE i \in DOMAIN seq : seq[i] = x

MinimizationBalance_C7 ==
  (Returned("minimization") \/ Returned("covariate_adaptive"))
  => /\ \A k \in 0..Len(P) : \A v \in CovValues : \A i1, i2 \in DOMAIN G :
          Abs(Holding(G[i1], k, v) - Holding(G[i2], k, v)) <= 1
     /\ \A k \in DOMAIN P : \E i \in DOMAIN G :
          /\ P[k] \in Range(R.alloc[G[i]])
          /\ \A j \in DOMAIN G :
               Holding(G[i], k - 1, R.arg[P[k]])
                 <= Holding(G[j], k - 1, R.arg[P[k]])
          /\ \A j \in 1..(i - 1) :
               Holding(G[i], k - 1, R.arg[P[k]])
                 < Holding(G[j], k - 1, R.arg[P[k]])
     /\ \A g \in Range(G) : \A a, b \in DOMAIN R.alloc[g] :
          a < b => PositionIn(P, R.alloc[g][a]) < PositionIn(P, R.alloc[g][b])

\* two groups, both covariate values present, the stored order changed by an
\* earlier simple call
Witness_C7 ==
  /\ Returned("minimization")
  /\ Len(P) = MaxN /\ P /= Ident(MaxN) /\ Len(G) = 2
  /\ {R.arg[p] : p \in Range(P)} = CovValues
  /\ Len(R.alloc[G[2]]) >= 1

\* C8 (cluster randomization): every cluster is assigned to exactly one group,
\* its members appear in that group contiguously and in the cluster's own
\* order (and in no other group), and the numbers of clusters of any two
\* groups differ by at most 1; 4 clusters of 2 and 2 groups give 2 clusters
\* (4 participants) to each group.
Contains(seq, sub) ==
  \E off \in 0..(Len(seq) - Len(sub)) :
    SubSeq(seq, off + 1, off + Len(sub)) = sub

ClustersOf(g) == Range(R.aux[g])

ClusterBalance_C8 ==
  Returned("cluster")
  => /\ \A c \in DOMAIN R.arg :
          Cardinality({<<i, k>> \in (DOMAIN G) \X (1..MaxClusters + 1) :
                         k \in DOMAIN R.aux[G[i]] /\ R.aux[G[i]][k] = c}) = 1
     /\ \A c \in DOMAIN R.arg : \A g \in Range(G) :
          IF c \in ClustersOf(g)
          THEN R.arg[c] /= <<>> => (g \in DOMAIN R.alloc
                                      /\ Contains(R.alloc[g], R.arg[c]))
          ELSE g \in DOMAIN R.alloc
                  => Range(R.alloc[g]) \cap Range(R.arg[c]) = {}
     /\ \A g1, g2 \in Range(G) :
          Abs(Len(R.aux[g1]) - Len(R.aux[g2])) <= 1
     /\ (Len(G) = 2 /\ Len(R.arg) = 4 /\ \A c \in DOMAIN R.arg : Len(R.arg[c]) = 2)
          => \A g \in Range(G) : Len(R.aux[g]) = 2 /\ Len(R.alloc[g]) = 4

Witness_C8 ==
  /\ Returned("cluster")
  /\ Len(G) = 2 /\ Len(R.arg) = 4
  /\ \A c \in DOMAIN R.arg : Len(R.arg[c]) = 2
  /\ R.aux[G[1]] = <<4, 1>>

\* C9 (allocation shape): the mapping every strategy returns has exactly the
\* declared groups as keys, and randomization_check reports a count for every
\* declared group.
AllocationShape_C9 ==
  /\ (\/ Returned("simple") \/ Returned("block") \/ Returned("stratified")
      \/ Returned("minimization") \/ Returned("covariate_adaptive")
      \/ Returned("cluster") \/ Returned("permuted_block"))
     => DOMAIN R.alloc = Range(G)
  /\ Returned("randomization_check") => DOMAIN R.aux = Range(G)

\* C10 (frame, as claimed): every call leaves the multiset of stored
\* participants and the group list as they were, and only
\* simple_randomization changes the stored order.
SameMultiset(s, t) ==
  /\ Len(s) = Len(t)
  /\ \A x \in Range(s) \cup Range(t) : Count(s, x) = Count(t, x)

\* the call that just returned was stratified_randomization with the
\* engine's stored list object among its strata
StoredStratum(r) ==
  /\ r.op = "stratified"
  /\ \E k \in DOMAIN r.arg : r.arg[k].stored /\ Len(r.arg[k].members) >= 2

Frame_C10 ==
  [][/\ SameMultiset(lists[participants[1]], lists'[participants'[1]])
     /\ groups' = groups
     /\ lists'[participants'[1]] /= lists[participants[1]]
          => ret'[1].op = "simple"
     /\ (ret'[1].op \notin {"simple", "none"} /\ ret'[1].status = "ok")
          => lists'[participants'[1]] = lists[participants[1]]]_vars

\* C10 (amended): every call on the engine leaves the multiset of stored
\* participants, the list object the engine refers to and the group list as
\* they were; the stored order is changed only by simple_randomization and
\* by stratified_randomization when one of the strata it is given is the
\* stored list object itself (every stratum is shuffled in place); every
\* other call leaves the stored order exactly as it was.
FrameUnlessStoredStratum_C10 ==
  [][/\ SameMultiset(lists[participants[1]], lists'[participants'[1]])
     /\ groups' = groups
     /\ participants' = participants
     /\ lists'[participants'[1]] /= lists[participants[1]]
          => (ret'[1].op = "simple" \/ StoredStratum(ret'[1]))
     /\ (/\ ret'[1].op \notin {"simple", "none"}
         /\ ret'[1].status = "ok"
         /\ ~StoredStratum(ret'[1]))
          => lists'[participants'[1]] = lists[participants[1]]]_vars

\* the stored order was changed, and a stratified call on lists of the
\* caller's own left it as it was
Witness_C10 ==
  /\ Len(P) = MaxN /\ P /= Ident(MaxN)
  /\ Returned("stratified") /\ ~StoredStratum(R)
  /\ \E k \in DOMAIN R.arg : Len(R.arg[k].members) >= 2

\* C2 (determinism under a seed): engine 1 is built, engine 2 is built on a
\* separate list with the same participants, with the same groups and the
\* same non-null seed, then simple_randomization is called on engine 1 and
\* then on engine 2: the two allocations are equal.
TestOrder ==
  /\ Len(calls) = 4
  /\ calls[1][1] = "init" /\ calls[2][1] = "init"
  /\ calls[1][3] /= calls[2][3]
  /\ calls[1][4] = calls[2][4] /\ calls[1][5] = calls[2][5]
  /\ calls[1][6] /= <<>> /\ calls[1][6] = calls[2][6]
  /\ calls[3] = <<"simple", 1>> /\ calls[4] = <<"simple", 2>>

Determinism_C2 == TestOrder => ret[1].alloc = ret[2].alloc

====
